---------------------------- MODULE Spec2Model ----------------------------
(***************************************************************************)
(* A model of modules::BatteryModule (src/src/modules/battery.cpp).        *)
(*                                                                         *)
(* Two threads act on one module instance: the inotify dispatcher, which   *)
(* runs on_event, and the animation thread, which runs                     *)
(* animation_thread_runner.  Each statement of either function that reads  *)
(* or writes a member of the instance is one step; statements that touch   *)
(* only locals are folded into the step that follows them.                 *)
(*                                                                         *)
(* Text is a sequence of one-character strings.  A number read from a      *)
(* file is kept in fixed point, in units of 1/Scale.                       *)
(***************************************************************************)
EXTENDS Integers, Sequences, FiniteSets, TLC

VARIABLES
  \* configuration, set by the constructor
  full_at,                    \* this->full_at
  animation_charging,         \* whether this->animation_charging is set
  label_charging,             \* the label templates: [present, text]
  label_discharging,
  label_full,
  \* the members on_event publishes
  state,                      \* this->state
  percentage,                 \* this->percentage
  label_charging_tokenized,   \* [present, text]
  label_discharging_tokenized,
  label_full_tokenized,
  \* shared with the module's owner
  enabled,                    \* this->enabled()
  broadcast_lock,             \* "free" or the holder
  \* the animation thread
  pc_anim,
  retries,
  observed,                   \* history: the inner loop's body has run
  \* the dispatcher thread inside on_event
  pc_event,
  status,                     \* local: content of the adapter status file
  capacity,                   \* local: content of the battery capacity file
  ev_state,                   \* local: int state
  ev_percentage,              \* local: int percentage
  ret_event,                  \* what the last on_event returned
  prev,                       \* the call before the current one, and what it left
  crashed,                    \* the process died on a null dereference
  \* the renderer
  rendered                    \* its last call of get_format or build, and the result

config_vars == <<full_at, animation_charging, label_charging, label_discharging, label_full>>
label_vars  == <<label_charging_tokenized, label_discharging_tokenized, label_full_tokenized>>
shared_vars == <<state, percentage>>
anim_vars   == <<pc_anim, retries, observed, broadcast_lock>>
event_vars  == <<pc_event, status, capacity, ev_state, ev_percentage, ret_event, prev>>
vars == <<config_vars, label_vars, shared_vars, enabled, anim_vars, event_vars, crashed,
          rendered>>

---------------------------------------------------------------------------
(* Constants of the program *)

STATE_UNKNOWN     == "STATE_UNKNOWN"
STATE_CHARGING    == "STATE_CHARGING"
STATE_DISCHARGING == "STATE_DISCHARGING"
STATE_FULL        == "STATE_FULL"

FORMAT_CHARGING    == "FORMAT_CHARGING"
FORMAT_DISCHARGING == "FORMAT_DISCHARGING"
FORMAT_FULL        == "FORMAT_FULL"

TAG_ANIMATION_CHARGING == "TAG_ANIMATION_CHARGING"
TAG_BAR_CAPACITY       == "TAG_BAR_CAPACITY"
TAG_RAMP_CAPACITY      == "TAG_RAMP_CAPACITY"
TAG_LABEL_CHARGING     == "TAG_LABEL_CHARGING"
TAG_LABEL_DISCHARGING  == "TAG_LABEL_DISCHARGING"
TAG_LABEL_FULL         == "TAG_LABEL_FULL"

\* the placeholder "%percentage%", one symbol of a label's text
TOKEN == "%percentage%"

\* int retries = 5
InitialRetries == 5

\* fixed point: a float v is kept as v * Scale, which keeps the first
\* FracDigits digits after the point
FracDigits == 1

Scale == 10 ^ FracDigits

---------------------------------------------------------------------------
(* Text *)

DigitChars == <<"0", "1", "2", "3", "4", "5", "6", "7", "8", "9">>

IsDigit(c) == \E i \in 1..10 : DigitChars[i] = c

DigitValue(c) == (CHOOSE i \in 1..10 : DigitChars[i] = c) - 1

IsSpace(c) == c \in {" ", "\n", "\t"}

RECURSIVE SkipSpace(_)
SkipSpace(s) ==
  IF s # <<>> /\ IsSpace(Head(s)) THEN SkipSpace(Tail(s)) ELSE s

\* the longest run of digits s starts with: <<its value on top of acc, the rest>>
RECURSIVE ReadDigits(_, _)
ReadDigits(s, acc) ==
  IF s # <<>> /\ IsDigit(Head(s))
    THEN ReadDigits(Tail(s), acc * 10 + DigitValue(Head(s)))
    ELSE <<acc, s>>

\* the first k digits after the point, as a number of units of 1/10^k
RECURSIVE ReadFraction(_, _)
ReadFraction(s, k) ==
  IF k = 0 THEN 0
  ELSE IF s # <<>> /\ IsDigit(Head(s))
         THEN DigitValue(Head(s)) * 10 ^ (k - 1) + ReadFraction(Tail(s), k - 1)
         ELSE 0

\* std::atof on decimal notation: blanks, a sign, digits, a point, digits;
\* it stops at the first character that does not fit and yields 0 when no
\* number starts the text.  The result is in units of 1/Scale.
atof(s) ==
  LET t    == SkipSpace(s)
      neg  == t # <<>> /\ Head(t) = "-"
      u    == IF t # <<>> /\ Head(t) \in {"-", "+"} THEN Tail(t) ELSE t
      ip   == ReadDigits(u, 0)
      r    == ip[2]
      frac == IF r # <<>> /\ Head(r) = "." THEN ReadFraction(Tail(r), FracDigits) ELSE 0
      mag  == ip[1] * Scale + frac
  IN  IF neg THEN 0 - mag ELSE mag

\* std::to_string of an int
RECURSIVE NatToString(_)
NatToString(n) ==
  IF n < 10 THEN <<DigitChars[n + 1]>>
            ELSE NatToString(n \div 10) \o <<DigitChars[(n % 10) + 1]>>

to_string(n) == IF n < 0 THEN <<"-">> \o NatToString(0 - n) ELSE NatToString(n)

\* Label::replace_token: every occurrence of token in text gives way to
\* replacement
RECURSIVE replace_token(_, _, _)
replace_token(text, token, replacement) ==
  IF text = <<>> THEN <<>>
  ELSE IF Head(text) = token
         THEN replacement \o replace_token(Tail(text), token, replacement)
         ELSE <<Head(text)>> \o replace_token(Tail(text), token, replacement)

---------------------------------------------------------------------------
(* on_event's arithmetic *)

\* math::cap<float>(value, min, max)
cap(value, min_value, max_value) ==
  IF value > max_value THEN max_value
  ELSE IF value < min_value THEN min_value
  ELSE value

\* ComputePercentage without the clamp
ComputePercentage_NoCap(content) ==
  LET cast == atof(content) \div Scale
      sum  == cast * Scale + Scale \div 2
  IN  sum \div Scale

\* int percentage = (int) math::cap<float>(std::atof(capacity.c_str()), 0, 100) + 0.5;
\* The cast binds tighter than the sum: the capped float is cut to an int,
\* 0.5 is added to that int as a double, and the initialisation of the int
\* cuts the double again.  The clamped value is not negative, so both cuts
\* are floors; fixed point is exact here, the contents explored having no
\* more than FracDigits digits after the point and far fewer significant
\* digits than a float holds.
ComputePercentage(content) ==
  LET capped == cap(atof(content), 0, 100 * Scale)
      cast   == capped \div Scale
      sum    == cast * Scale + Scale \div 2
  IN  sum \div Scale

\* RawState with a default case that falls into DISCHARGING
RawState_DefaultDischarging(content) ==
  CASE content[1] = "1" -> STATE_CHARGING
    [] OTHER            -> STATE_DISCHARGING

\* switch (status[0])
RawState(content) ==
  CASE content[1] = "0" -> STATE_DISCHARGING
    [] content[1] = "1" -> STATE_CHARGING
    [] OTHER            -> STATE_UNKNOWN

\* NormalizedPercentage with > for >=
NormalizedPercentage_Strict(st, pct) ==
  IF st = STATE_CHARGING /\ pct > full_at THEN 100 ELSE pct

\* if ((state == STATE_CHARGING) && percentage >= this->full_at) percentage = 100;
NormalizedPercentage(st, pct) ==
  IF st = STATE_CHARGING /\ pct >= full_at THEN 100 ELSE pct

\* NormalizedState with FULL for a charging battery only
NormalizedState_OnlyCharging(st, pct) ==
  IF pct = 100 /\ st = STATE_CHARGING THEN STATE_FULL ELSE st

\* if (percentage == 100) state = STATE_FULL;
NormalizedState(st, pct) ==
  IF pct = 100 THEN STATE_FULL ELSE st

\* the locals percentage and state once lines 117-128 have run on the
\* contents of the two files
SamplePercentage(status_content, capacity_content) ==
  NormalizedPercentage(RawState(status_content), ComputePercentage(capacity_content))

SampleState(status_content, capacity_content) ==
  NormalizedState(RawState(status_content),
                  SamplePercentage(status_content, capacity_content))

\* PercentageText without the "%"
PercentageText_NoSuffix(pct) == to_string(pct)

\* std::to_string(percentage) + "%"
PercentageText(pct) == to_string(pct) \o <<"%">>

---------------------------------------------------------------------------
(* Labels: a null pointer, or a label with its text *)

NoLabel == [present |-> FALSE, text |-> <<>>]

Label(text) == [present |-> TRUE, text |-> text]

\* Label::clone
clone(label) == Label(label.text)

---------------------------------------------------------------------------
(* The inputs and configurations explored *)

\* what io::file::get_contents may yield for the adapter status file
StatusContents == { <<>>, <<"0">>, <<"1">>, <<"2">> }

\* what io::file::get_contents may yield for the battery capacity file
CapacityContents ==
  { <<>>,
    <<"8", "7", "\n">>,
    <<"8", "6", ".", "5">>,
    <<"8", "7", ".", "4">>,
    <<"9", "9", ".", "6">>,
    <<"1", "0", "0">>,
    <<"1", "5", "0">>,
    <<"-", "5">>,
    <<"x">> }

\* config: full_at
FullAtValues == {0, 95, 100, 101}

\* config: the text of each label the formats name
ChargingText    == <<TOKEN>>
DischargingText == <<"B", TOKEN>>
FullText        == <<"F", TOKEN>>

---------------------------------------------------------------------------
(* The constructor *)

\* prev when the running call does not repeat the call before it
NoRepeat ==
  [repeat |-> FALSE, state |-> STATE_UNKNOWN, percentage |-> 0,
   charging |-> <<>>, discharging |-> <<>>, full |-> <<>>]

\* rendered before the renderer's first call
NoCall == [call |-> "none", ret |-> "none"]

Init ==
  /\ full_at \in FullAtValues
  /\ animation_charging \in BOOLEAN
  /\ label_charging \in {NoLabel, Label(ChargingText)}
  /\ label_discharging \in {NoLabel, Label(DischargingText)}
  /\ label_full \in {NoLabel, Label(FullText)}
  /\ state = STATE_UNKNOWN
  /\ percentage = 0
  /\ label_charging_tokenized = NoLabel
  /\ label_discharging_tokenized = NoLabel
  /\ label_full_tokenized = NoLabel
  /\ enabled = FALSE
  /\ broadcast_lock = "free"
  /\ pc_anim = IF animation_charging THEN "start" ELSE "none"
  /\ retries = InitialRetries
  /\ observed = FALSE
  /\ pc_event = "idle"
  /\ status = <<>>
  /\ capacity = <<>>
  /\ ev_state = STATE_UNKNOWN
  /\ ev_percentage = 0
  /\ ret_event = "none"
  /\ prev = NoRepeat
  /\ crashed = FALSE
  /\ rendered = NoCall

---------------------------------------------------------------------------
(* The module's owner starts and stops the module *)

Start ==
  /\ ~crashed
  /\ ~enabled
  /\ enabled' = TRUE
  /\ UNCHANGED <<config_vars, label_vars, shared_vars, anim_vars, event_vars, crashed,
               rendered>>

Stop ==
  /\ ~crashed
  /\ enabled
  /\ enabled' = FALSE
  /\ UNCHANGED <<config_vars, label_vars, shared_vars, anim_vars, event_vars, crashed,
               rendered>>

---------------------------------------------------------------------------
(* animation_thread_runner *)

anim_frame == <<config_vars, label_vars, shared_vars, enabled, event_vars, crashed,
                rendered>>

\* std::this_thread::yield(); ... int retries = 5;
AnimStart ==
  /\ ~crashed
  /\ pc_anim = "start"
  /\ retries' = InitialRetries
  /\ pc_anim' = "outer"
  /\ UNCHANGED <<observed, broadcast_lock, anim_frame>>

\* AnimOuter without the decrement
AnimOuter_NoDecrement ==
  /\ ~crashed
  /\ pc_anim = "outer"
  /\ pc_anim' = IF retries > 0 THEN "inner" ELSE "done"
  /\ UNCHANGED <<retries, observed, broadcast_lock, anim_frame>>

\* while (retries-- > 0)
AnimOuter ==
  /\ ~crashed
  /\ pc_anim = "outer"
  /\ pc_anim' = IF retries > 0 THEN "inner" ELSE "done"
  /\ retries' = retries - 1
  /\ UNCHANGED <<observed, broadcast_lock, anim_frame>>

\* while (this->enabled())
AnimInner ==
  /\ ~crashed
  /\ pc_anim = "inner"
  /\ pc_anim' = IF enabled THEN "lock" ELSE "cooldown"
  /\ UNCHANGED <<retries, observed, broadcast_lock, anim_frame>>

\* AnimLock without the collapse of the budget
AnimLock_NoCollapse ==
  /\ ~crashed
  /\ pc_anim = "lock"
  /\ broadcast_lock = "free"
  /\ broadcast_lock' = "animation"
  /\ observed' = TRUE
  /\ pc_anim' = "read"
  /\ UNCHANGED <<retries, anim_frame>>

\* std::unique_lock<concurrency::SpinLock> lck(this->broadcast_lock);
\* if (retries > 0) retries = 0;
AnimLock ==
  /\ ~crashed
  /\ pc_anim = "lock"
  /\ broadcast_lock = "free"
  /\ broadcast_lock' = "animation"
  /\ retries' = IF retries > 0 THEN 0 ELSE retries
  /\ observed' = TRUE
  /\ pc_anim' = "read"
  /\ UNCHANGED anim_frame

\* AnimRead with STATE_FULL for STATE_CHARGING
AnimRead_Full ==
  /\ ~crashed
  /\ pc_anim = "read"
  /\ pc_anim' = IF state = STATE_FULL THEN "unlock" ELSE "sleep"
  /\ UNCHANGED <<retries, observed, broadcast_lock, anim_frame>>

\* AnimRead with the test turned around
AnimRead_Inverted ==
  /\ ~crashed
  /\ pc_anim = "read"
  /\ pc_anim' = IF state # STATE_CHARGING THEN "unlock" ELSE "sleep"
  /\ UNCHANGED <<retries, observed, broadcast_lock, anim_frame>>

\* if (this->state == STATE_CHARGING) ... else log_trace("state != charging");
AnimRead ==
  /\ ~crashed
  /\ pc_anim = "read"
  /\ pc_anim' = IF state = STATE_CHARGING THEN "unlock" ELSE "sleep"
  /\ UNCHANGED <<retries, observed, broadcast_lock, anim_frame>>

\* AnimUnlock without the release
AnimUnlock_KeepsLock ==
  /\ ~crashed
  /\ pc_anim = "unlock"
  /\ pc_anim' = "broadcast"
  /\ UNCHANGED <<retries, observed, broadcast_lock, anim_frame>>

\* lck.unlock();
AnimUnlock ==
  /\ ~crashed
  /\ pc_anim = "unlock"
  /\ broadcast_lock' = "free"
  /\ pc_anim' = "broadcast"
  /\ UNCHANGED <<retries, observed, anim_frame>>

\* this->broadcast();
AnimBroadcast ==
  /\ ~crashed
  /\ pc_anim = "broadcast"
  /\ pc_anim' = "sleep"
  /\ UNCHANGED <<retries, observed, broadcast_lock, anim_frame>>

\* std::this_thread::sleep_for(dur); and lck leaves its scope
AnimSleep ==
  /\ ~crashed
  /\ pc_anim = "sleep"
  /\ broadcast_lock' = "free"
  /\ pc_anim' = "inner"
  /\ UNCHANGED <<retries, observed, anim_frame>>

\* std::this_thread::sleep_for(500ms);
AnimCooldown ==
  /\ ~crashed
  /\ pc_anim = "cooldown"
  /\ pc_anim' = "outer"
  /\ UNCHANGED <<retries, observed, broadcast_lock, anim_frame>>

animation_thread_runner ==
  \/ AnimStart \/ AnimOuter \/ AnimInner \/ AnimLock \/ AnimRead
  \/ AnimUnlock \/ AnimBroadcast \/ AnimSleep \/ AnimCooldown

---------------------------------------------------------------------------
(* on_event *)

\* History.  A call that reads the contents the call before it read, that
\* call having returned true, records what that call left.
Snapshot(s, c) ==
  IF ret_event = "true" /\ s = status /\ c = capacity
    THEN [repeat |-> TRUE, state |-> state, percentage |-> percentage,
          charging |-> label_charging_tokenized.text,
          discharging |-> label_discharging_tokenized.text,
          full |-> label_full_tokenized.text]
    ELSE NoRepeat

event_frame == <<config_vars, enabled, anim_vars, crashed, rendered>>

\* if (status.empty()) { log_error(...); return false; }
EventStatusEmpty ==
  /\ ~crashed
  /\ pc_event = "idle"
  /\ \E s \in StatusContents :
       /\ s = <<>>
       /\ status' = s
  /\ capacity' = <<>>
  /\ ev_state' = STATE_UNKNOWN
  /\ ev_percentage' = 0
  /\ ret_event' = "false"
  /\ prev' = NoRepeat
  /\ UNCHANGED <<pc_event, label_vars, shared_vars, event_frame>>

\* EventCapacityEmpty with the local state published before the return
EventCapacityEmpty_Publishes ==
  /\ ~crashed
  /\ pc_event = "idle"
  /\ \E s \in StatusContents, c \in CapacityContents :
       /\ s # <<>>
       /\ c = <<>>
       /\ status' = s
       /\ capacity' = c
  /\ ev_state' = STATE_UNKNOWN
  /\ ev_percentage' = 0
  /\ ret_event' = "false"
  /\ prev' = NoRepeat
  /\ state' = STATE_UNKNOWN
  /\ UNCHANGED <<pc_event, label_vars, percentage, event_frame>>

\* if (capacity.empty()) { log_error(...); return false; }
EventCapacityEmpty ==
  /\ ~crashed
  /\ pc_event = "idle"
  /\ \E s \in StatusContents, c \in CapacityContents :
       /\ s # <<>>
       /\ c = <<>>
       /\ status' = s
       /\ capacity' = c
  /\ ev_state' = STATE_UNKNOWN
  /\ ev_percentage' = 0
  /\ ret_event' = "false"
  /\ prev' = NoRepeat
  /\ UNCHANGED <<pc_event, label_vars, shared_vars, event_frame>>

\* both files have content: the locals state and percentage, lines 117-128
EventCompute ==
  /\ ~crashed
  /\ pc_event = "idle"
  /\ \E s \in StatusContents, c \in CapacityContents :
       /\ s # <<>>
       /\ c # <<>>
       /\ status' = s
       /\ capacity' = c
       /\ ev_percentage' = SamplePercentage(s, c)
       /\ ev_state' = SampleState(s, c)
       /\ prev' = Snapshot(s, c)
  /\ ret_event' = "running"
  /\ pc_event' = "clone"
  /\ UNCHANGED <<label_vars, shared_vars, event_frame>>

\* if (!this->label_X_tokenized) this->label_X_tokenized = this->label_X->clone();
\* for the three labels in turn; a missing label_X is a null dereference
ClonedOrKept(tokenized, label) ==
  IF tokenized.present THEN tokenized ELSE clone(label)

EventClone ==
  /\ ~crashed
  /\ pc_event = "clone"
  /\ IF \/ ~label_charging_tokenized.present /\ ~label_charging.present
        \/ ~label_discharging_tokenized.present /\ ~label_discharging.present
        \/ ~label_full_tokenized.present /\ ~label_full.present
       THEN /\ crashed' = TRUE
            /\ UNCHANGED <<pc_event, label_vars>>
       ELSE /\ label_charging_tokenized' =
                 ClonedOrKept(label_charging_tokenized, label_charging)
            /\ label_discharging_tokenized' =
                 ClonedOrKept(label_discharging_tokenized, label_discharging)
            /\ label_full_tokenized' =
                 ClonedOrKept(label_full_tokenized, label_full)
            /\ pc_event' = "charging_text"
            /\ UNCHANGED crashed
  /\ UNCHANGED <<status, capacity, ev_state, ev_percentage, ret_event, prev,
                 shared_vars, config_vars, enabled, anim_vars, rendered>>

\* SetText with += for =
SetText_Appends(tokenized, label) ==
  [tokenized EXCEPT !.text = @ \o label.text]

\* this->label_X_tokenized->text = this->label_X->text;
SetText(tokenized, label) == [tokenized EXCEPT !.text = label.text]

\* this->label_X_tokenized->replace_token("%percentage%", std::to_string(percentage) + "%");
ReplaceToken(tokenized, pct) ==
  [tokenized EXCEPT !.text = replace_token(@, TOKEN, PercentageText(pct))]

event_locals == <<status, capacity, ev_state, ev_percentage, ret_event, prev>>

EventChargingText ==
  /\ ~crashed
  /\ pc_event = "charging_text"
  /\ label_charging_tokenized' = SetText(label_charging_tokenized, label_charging)
  /\ pc_event' = "charging_token"
  /\ UNCHANGED <<label_discharging_tokenized, label_full_tokenized,
                 event_locals, shared_vars, event_frame>>

EventChargingToken ==
  /\ ~crashed
  /\ pc_event = "charging_token"
  /\ label_charging_tokenized' = ReplaceToken(label_charging_tokenized, ev_percentage)
  /\ pc_event' = "discharging_text"
  /\ UNCHANGED <<label_discharging_tokenized, label_full_tokenized,
                 event_locals, shared_vars, event_frame>>

EventDischargingText ==
  /\ ~crashed
  /\ pc_event = "discharging_text"
  /\ label_discharging_tokenized' = SetText(label_discharging_tokenized, label_discharging)
  /\ pc_event' = "discharging_token"
  /\ UNCHANGED <<label_charging_tokenized, label_full_tokenized,
                 event_locals, shared_vars, event_frame>>

EventDischargingToken ==
  /\ ~crashed
  /\ pc_event = "discharging_token"
  /\ label_discharging_tokenized' = ReplaceToken(label_discharging_tokenized, ev_percentage)
  /\ pc_event' = "full_text"
  /\ UNCHANGED <<label_charging_tokenized, label_full_tokenized,
                 event_locals, shared_vars, event_frame>>

EventFullText ==
  /\ ~crashed
  /\ pc_event = "full_text"
  /\ label_full_tokenized' = SetText(label_full_tokenized, label_full)
  /\ pc_event' = "full_token"
  /\ UNCHANGED <<label_charging_tokenized, label_discharging_tokenized,
                 event_locals, shared_vars, event_frame>>

EventFullToken ==
  /\ ~crashed
  /\ pc_event = "full_token"
  /\ label_full_tokenized' = ReplaceToken(label_full_tokenized, ev_percentage)
  /\ pc_event' = "state"
  /\ UNCHANGED <<label_charging_tokenized, label_discharging_tokenized,
                 event_locals, shared_vars, event_frame>>

\* this->state = state;
EventState ==
  /\ ~crashed
  /\ pc_event = "state"
  /\ state' = ev_state
  /\ pc_event' = "percentage"
  /\ UNCHANGED <<percentage, label_vars, event_locals, event_frame>>

\* this->percentage = percentage; return true;
EventPercentage ==
  /\ ~crashed
  /\ pc_event = "percentage"
  /\ percentage' = ev_percentage
  /\ ret_event' = "true"
  /\ pc_event' = "idle"
  /\ UNCHANGED <<state, label_vars, status, capacity, ev_state, ev_percentage,
                 prev, event_frame>>

on_event ==
  \/ EventStatusEmpty \/ EventCapacityEmpty \/ EventCompute \/ EventClone
  \/ EventChargingText \/ EventChargingToken
  \/ EventDischargingText \/ EventDischargingToken
  \/ EventFullText \/ EventFullToken
  \/ EventState \/ EventPercentage

---------------------------------------------------------------------------
(* The readers *)

\* get_format with a format of its own for UNKNOWN
get_format_UnknownOwn ==
  IF state = STATE_FULL THEN FORMAT_FULL
  ELSE IF state = STATE_CHARGING THEN FORMAT_CHARGING
  ELSE IF state = STATE_DISCHARGING THEN FORMAT_DISCHARGING
  ELSE "FORMAT_UNKNOWN"

\* std::string BatteryModule::get_format()
get_format ==
  IF state = STATE_FULL THEN FORMAT_FULL
  ELSE IF state = STATE_CHARGING THEN FORMAT_CHARGING
  ELSE FORMAT_DISCHARGING

\* the tags the renderer may ask build for: the six of the formats and any
\* other one
Tags ==
  { TAG_ANIMATION_CHARGING, TAG_BAR_CAPACITY, TAG_RAMP_CAPACITY,
    TAG_LABEL_CHARGING, TAG_LABEL_DISCHARGING, TAG_LABEL_FULL, "TAG_OTHER" }

\* what build hands to builder->node for a tag
BuilderNode(tag) ==
  CASE tag = TAG_ANIMATION_CHARGING -> [node |-> "animation_charging"]
    [] tag = TAG_BAR_CAPACITY       -> [node |-> "bar_capacity", value |-> percentage]
    [] tag = TAG_RAMP_CAPACITY      -> [node |-> "ramp_capacity", value |-> percentage]
    [] tag = TAG_LABEL_CHARGING     -> [node |-> "label", value |-> label_charging_tokenized]
    [] tag = TAG_LABEL_DISCHARGING  -> [node |-> "label", value |-> label_discharging_tokenized]
    [] tag = TAG_LABEL_FULL         -> [node |-> "label", value |-> label_full_tokenized]
    [] OTHER                        -> [node |-> "none"]

\* what build returns for a tag
BuildResult(tag) ==
  IF BuilderNode(tag).node = "none" THEN "false" ELSE "true"

reader_frame ==
  <<config_vars, label_vars, shared_vars, enabled, anim_vars, event_vars, crashed>>

\* the renderer calls get_format
GetFormat ==
  /\ ~crashed
  /\ rendered' = [call |-> "get_format", ret |-> get_format]
  /\ UNCHANGED reader_frame

\* Build creating the tokenized charging label when there is none
Build_CreatesLabel ==
  /\ ~crashed
  /\ \E tag \in Tags : rendered' = [call |-> "build", ret |-> BuildResult(tag)]
  /\ label_charging_tokenized' =
       IF label_charging_tokenized.present \/ ~label_charging.present
         THEN label_charging_tokenized
         ELSE Label(label_charging.text)
  /\ UNCHANGED <<config_vars, label_discharging_tokenized, label_full_tokenized,
                 shared_vars, enabled, anim_vars, event_vars, crashed>>

\* the renderer calls build(builder, tag)
Build ==
  /\ ~crashed
  /\ \E tag \in Tags : rendered' = [call |-> "build", ret |-> BuildResult(tag)]
  /\ UNCHANGED reader_frame

---------------------------------------------------------------------------

Next == Start \/ Stop \/ animation_thread_runner \/ on_event

Spec == Init /\ [][Next]_vars

\* One configuration, with the renderer: full_at at its default, the
\* animation and the three labels configured
InitConfigured ==
  /\ Init
  /\ full_at = 100
  /\ animation_charging
  /\ label_charging.present
  /\ label_discharging.present
  /\ label_full.present

NextRendered == Next \/ GetFormat \/ Build

SpecRendered == InitConfigured /\ [][NextRendered]_vars

\* The same configuration without the renderer, the animation thread
\* scheduled fairly: a thread that can take a step takes one
SpecFair == InitConfigured /\ [][Next]_vars /\ WF_vars(animation_thread_runner)

---------------------------------------------------------------------------
(* Properties *)

\* a call of on_event has returned true and no call has started since
Sampled == pc_event = "idle" /\ ret_event = "true"

\* C1, as stated: whenever the animation thread is about to invoke
\* broadcast(), the published state is CHARGING.
C1_BroadcastOnlyWhileCharging ==
  pc_anim = "broadcast" => state = STATE_CHARGING

\* C1, amended: the animation thread reaches broadcast() only from the
\* unlock that follows a read of state which returned CHARGING, a read made
\* while it holds broadcast_lock; the published state may have changed by
\* the time of the broadcast.
C1_BroadcastOnlyAfterChargingRead ==
  [][/\ pc_anim' = "broadcast" /\ pc_anim # "broadcast" => pc_anim = "unlock"
     /\ pc_anim' = "unlock" /\ pc_anim # "unlock" =>
          /\ pc_anim = "read"
          /\ state = STATE_CHARGING
          /\ broadcast_lock = "animation"]_vars

\* C1, witness: the animation thread is about to broadcast and the state
\* published meanwhile is another one.
C1_Witness ==
  /\ pc_anim = "broadcast"
  /\ state = STATE_DISCHARGING
  /\ Sampled

\* the (state, percentage) pairs one successful sample can compute
SampleOutcomes ==
  { <<SampleState(s, c), SamplePercentage(s, c)>> :
      s \in StatusContents \ {<<>>}, c \in CapacityContents \ {<<>>} }

\* C2, as stated: in every reachable state the published pair (state,
\* percentage) is the initial pair or the pair one single sample computed,
\* and state FULL comes with percentage 100.
C2_SnapshotNeverTorn ==
  /\ <<state, percentage>> \in SampleOutcomes \cup {<<STATE_UNKNOWN, 0>>}
  /\ state = STATE_FULL => percentage = 100

\* C3: a call of on_event that reads empty content from either file returns
\* false at once and leaves state, percentage, the three tokenized labels
\* and the animation thread as they were.
C3_EmptyReadChangesNothing ==
  [][(/\ pc_event = "idle"
      /\ event_vars' # event_vars
      /\ (status' = <<>> \/ capacity' = <<>>))
     => /\ ret_event' = "false"
        /\ pc_event' = "idle"
        /\ UNCHANGED <<shared_vars, label_vars, anim_vars, crashed>>]_vars

\* C3, witness: a call found the capacity file empty after an earlier call
\* had published CHARGING, and the animation thread still goes about its
\* broadcast.
C3_Witness ==
  /\ pc_event = "idle"
  /\ ret_event = "false"
  /\ status # <<>>
  /\ capacity = <<>>
  /\ state = STATE_CHARGING
  /\ label_charging_tokenized.present
  /\ pc_anim = "broadcast"

\* C4: after a call that returned true on a status starting with '1' and
\* a capacity whose computed percentage is at least full_at, the published
\* percentage is 100 and the published state is FULL.
C4_ChargingAtThresholdIsFull ==
  (/\ Sampled
   /\ status[1] = "1"
   /\ ComputePercentage(capacity) >= full_at)
  => (percentage = 100 /\ state = STATE_FULL)

\* C4, witness: a charging sample below 100 that reached full_at.
C4_Witness ==
  /\ Sampled
  /\ status[1] = "1"
  /\ ComputePercentage(capacity) >= full_at
  /\ ComputePercentage(capacity) < 100
  /\ percentage = 100
  /\ state = STATE_FULL

\* C5: after a call that returned true, a published percentage of 100
\* comes with the state FULL, whatever the status started with.
C5_HundredIsFull ==
  (Sampled /\ percentage = 100) => state = STATE_FULL

\* C5, witness: a sample of 100 whose status started with '0'.
C5_Witness ==
  /\ Sampled
  /\ status[1] = "0"
  /\ percentage = 100
  /\ state = STATE_FULL

\* v, in units of 1/Scale, rounded half up to an integer
RoundHalfUp(v) == (v + Scale \div 2) \div Scale

\* C6, as stated: the percentage a call computes from the capacity it read,
\* before the full_at rule, is the capacity value clamped to [0,100] and
\* rounded half up.
C6_PercentageRoundsHalfUp ==
  (pc_event # "idle" \/ ret_event = "true")
  => ComputePercentage(capacity) = RoundHalfUp(cap(atof(capacity), 0, 100 * Scale))

\* C7: the published percentage lies in [0,100] in every state; and after a
\* call that returned true it is no larger than what the same status would
\* publish for any capacity of a larger or equal value, and no smaller than
\* for any capacity of a smaller or equal value.
C7_PercentageInRangeAndMonotonic ==
  /\ percentage \in 0..100
  /\ Sampled =>
       \A c \in CapacityContents \ {<<>>} :
         /\ atof(capacity) <= atof(c) => percentage <= SamplePercentage(status, c)
         /\ atof(c) <= atof(capacity) => SamplePercentage(status, c) <= percentage

\* C7, witness: a capacity above 100 was sampled and published as 100.
C7_Witness ==
  /\ Sampled
  /\ atof(capacity) > 100 * Scale
  /\ percentage = 100

\* C8, as stated: after a call that returned true on a status starting with
\* neither '0' nor '1', the published state is UNKNOWN and get_format gives
\* the discharging format.
C8_OtherStatusIsUnknown ==
  (Sampled /\ status[1] \notin {"0", "1"})
  => (state = STATE_UNKNOWN /\ get_format = FORMAT_DISCHARGING)

\* C8, amended: after such a call the published state is UNKNOWN and
\* get_format gives the discharging format when the computed percentage is
\* below 100; when it is 100 the state is FULL and get_format gives the full
\* format.
C8_OtherStatusIsUnknownBelowHundred ==
  (Sampled /\ status[1] \notin {"0", "1"})
  => IF ComputePercentage(capacity) = 100
       THEN state = STATE_FULL /\ get_format = FORMAT_FULL
       ELSE state = STATE_UNKNOWN /\ get_format = FORMAT_DISCHARGING

\* C8, witness: the status "2" sampled with a capacity below 100.
C8_Witness ==
  /\ Sampled
  /\ status = <<"2">>
  /\ percentage < 100
  /\ state = STATE_UNKNOWN
  /\ get_format = FORMAT_DISCHARGING

\* C9: after a call that returned true, the text of each tokenized label is
\* the text of its template with the placeholder replaced by the published
\* percentage in decimal, followed by "%".
C9_LabelsShowPublishedPercentage ==
  Sampled =>
    LET shown == to_string(percentage) \o <<"%">>
    IN  /\ label_charging_tokenized.text =
             replace_token(label_charging.text, TOKEN, shown)
        /\ label_discharging_tokenized.text =
             replace_token(label_discharging.text, TOKEN, shown)
        /\ label_full_tokenized.text =
             replace_token(label_full.text, TOKEN, shown)

\* C9, witness: status "1", capacity "87", full_at 100: CHARGING, 87, "87%".
C9_Witness ==
  /\ Sampled
  /\ status = <<"1">>
  /\ capacity = <<"8", "7", "\n">>
  /\ full_at = 100
  /\ state = STATE_CHARGING
  /\ percentage = 87
  /\ label_charging_tokenized.text = <<"8", "7", "%">>
  /\ label_discharging_tokenized.text = <<"B", "8", "7", "%">>
  /\ label_full_tokenized.text = <<"F", "8", "7", "%">>

\* C10: a call that returned true on the contents the call before it, which
\* returned true too, had read, leaves the state, the percentage and the
\* three label texts that call had left.
C10_SampleIsIdempotent ==
  (Sampled /\ prev.repeat)
  => /\ state = prev.state
     /\ percentage = prev.percentage
     /\ label_charging_tokenized.text = prev.charging
     /\ label_discharging_tokenized.text = prev.discharging
     /\ label_full_tokenized.text = prev.full

\* C10, witness: the second of two calls that both read status "0" and
\* capacity "86.5" has returned.
C10_Witness ==
  /\ Sampled
  /\ prev.repeat
  /\ status = <<"0">>
  /\ capacity = <<"8", "6", ".", "5">>
  /\ state = STATE_DISCHARGING
  /\ percentage = 86
  /\ label_discharging_tokenized.text = <<"B", "8", "6", "%">>

\* C11: whenever the renderer calls get_format, the format returned is the
\* full format when state is FULL, the charging format when it is CHARGING
\* and the discharging format for every other state, UNKNOWN included.
C11_FormatIsTotalInState ==
  [][(rendered' # rendered /\ rendered'.call = "get_format")
     => /\ state \in {STATE_UNKNOWN, STATE_CHARGING, STATE_DISCHARGING, STATE_FULL}
        /\ state = STATE_FULL => rendered'.ret = FORMAT_FULL
        /\ state = STATE_CHARGING => rendered'.ret = FORMAT_CHARGING
        /\ state \in {STATE_DISCHARGING, STATE_UNKNOWN} =>
             rendered'.ret = FORMAT_DISCHARGING]_vars

\* C11, witness: get_format has returned the discharging format for the
\* state UNKNOWN that a sample of status "2" published.
C11_Witness ==
  /\ rendered = [call |-> "get_format", ret |-> FORMAT_DISCHARGING]
  /\ state = STATE_UNKNOWN
  /\ Sampled
  /\ status = <<"2">>

\* the animation thread has returned from animation_thread_runner, or was
\* never started, or went down with the process
AnimTerminated == pc_anim \in {"done", "none"} \/ crashed

\* C12: if the module is disabled from some point on, the animation thread,
\* scheduled fairly, eventually terminates.
C12_DisabledThreadTerminates ==
  <>[](~enabled) => <>AnimTerminated

\* C12, witness: the thread has run its inner loop, found the module
\* disabled and returned.
C12_Witness ==
  /\ pc_anim = "done"
  /\ observed
  /\ ~enabled

\* C13, as stated: the animation thread sleeps the 500 ms cool-down only
\* while the retry budget is not exhausted, so that a thread whose inner
\* loop has made an observation returns, once the module is disabled,
\* without a cool-down.
C13_CooldownOnlyWithBudgetLeft ==
  pc_anim = "cooldown" => (retries > 0 /\ ~observed)

\* C14, as stated: whatever labels the formats configure, no call of
\* on_event uses an absent label and brings the process down.
C14_OnEventNeverFatal ==
  ~crashed

\* C15, as stated: the animation thread never holds broadcast_lock while
\* on_event is in its publish step, between the write of state and the
\* write of percentage.
C15_PublishExcludesGate ==
  pc_event = "percentage" => broadcast_lock # "animation"

\* the outer loop will start no further pass
Exhausted == pc_anim \in {"cooldown", "outer", "done"} /\ retries <= 0

\* C16: every pass the outer loop starts takes one from a budget that starts
\* at 5 and never grows; once the inner loop's body has run the budget is
\* spent; and a thread that has left the inner loop with the budget spent
\* never enters it again, whatever happens to enabled.
C16_BudgetSpentByFirstIteration ==
  [][/\ retries' <= retries
     /\ retries <= InitialRetries
     /\ (pc_anim = "outer" /\ pc_anim' = "inner") =>
          (retries >= 1 /\ retries' = retries - 1)
     /\ observed' => retries' <= 0
     /\ Exhausted => Exhausted']_vars

\* C16, witness: the inner loop has run, the thread has returned, and the
\* module is enabled again.
C16_Witness ==
  /\ observed
  /\ pc_anim = "done"
  /\ enabled

\* C17: the animation thread does not hold broadcast_lock when it invokes
\* broadcast().
C17_BroadcastWithoutGate ==
  pc_anim = "broadcast" => broadcast_lock = "free"

\* C17, witness: the thread has read CHARGING, released the lock and is
\* about to broadcast.
C17_Witness ==
  /\ pc_anim = "broadcast"
  /\ broadcast_lock = "free"
  /\ state = STATE_CHARGING

\* C18, as stated: the animation thread never sleeps the frame period
\* holding broadcast_lock.
C18_GateNotHeldAsleep ==
  pc_anim = "sleep" => broadcast_lock # "animation"

\* C19: a step that changes state, percentage or a tokenized label is a step
\* of on_event: the dispatcher is inside a call and moves on, and the
\* animation thread and the renderer stay where they are.
C19_OnEventIsSoleWriter ==
  [][<<shared_vars, label_vars>>' # <<shared_vars, label_vars>>
     => /\ pc_event # "idle"
        /\ pc_event' # pc_event
        /\ UNCHANGED <<anim_vars, rendered>>]_vars

\* C19, witness: the animation thread is about to broadcast and the
\* renderer has called build, both after a sample published CHARGING.
C19_Witness ==
  /\ rendered = [call |-> "build", ret |-> "true"]
  /\ pc_anim = "broadcast"
  /\ observed
  /\ Sampled
  /\ state = STATE_CHARGING

\* C20, as stated: if from some point on the module is enabled and state is
\* CHARGING, the animation thread, scheduled fairly, invokes broadcast()
\* again and again.
C20_BroadcastsWheneverEnabled ==
  <>[](enabled /\ state = STATE_CHARGING) => []<>(pc_anim = "broadcast")

\* C20, amended: under the same condition the animation thread invokes
\* broadcast() again and again unless it has returned, which it does when
\* the module is not enabled within its 5 startup passes or is disabled
\* after the inner loop has run.
C20_BroadcastsWhileThreadRuns ==
  <>[](enabled /\ state = STATE_CHARGING)
    => ([]<>(pc_anim = "broadcast") \/ <>AnimTerminated)

\* C20, witness: the thread is about to broadcast, not for the first time in
\* this sample, with no call of on_event running.
C20_Witness ==
  /\ pc_anim = "broadcast"
  /\ enabled
  /\ state = STATE_CHARGING
  /\ pc_event = "idle"
  /\ ret_event = "true"

===========================================================================
